---- MODULE Spec2Model ----
(***************************************************************************)
(* Model of sonotheia-temporal/scripts/extract_embeddings.py: the          *)
(* command-line entry point main(), the six-stage pipeline of              *)
(* AudioEmbeddingExtractor.process_audio_file and the word/token aligner.  *)
(* Strings whose characters matter (paths, token strings) are sequences of *)
(* one-character strings, indexed from 1; Python indices are 0-based and   *)
(* are kept 0-based in the model (token_idx, current_pos, layer_idx).      *)
(***************************************************************************)
EXTENDS Integers, Sequences, FiniteSets, TLC

(* ------------------------------ bounds --------------------------------- *)
MaxWords == 2
MaxTokens == 2
MaxWordTokens == 2
NumLayers == 2

(* --------------------------- string literals --------------------------- *)
S_csv == <<".", "c", "s", "v">>
S_full_npy == <<"_", "f", "u", "l", "l", ".", "n", "p", "y">>
S_embeddings_csv ==
    <<"_", "e", "m", "b", "e", "d", "d", "i", "n", "g", "s", ".", "c", "s", "v">>
S_visualization_png ==
    <<"_", "v", "i", "s", "u", "a", "l", "i", "z", "a", "t", "i", "o", "n", ".", "p", "n", "g">>
S_newline == <<"\n">>
S_escaped_newline == <<"\\", "n">>
S_sep == <<"/">>

(* ------------------------------ inputs --------------------------------- *)
(* Command lines: the positional audio_file and --output-dir (NoOutputDir  *)
(* when the option is absent, Python's None).                              *)
AudioPaths ==
    { <<"a", ".", "c", "s", "v", ".", "w", "a", "v">>,
      <<"i", "/", "b", ".", "w", "a", "v">> }
NoOutputDir == <<>>
OutputDirArgs == { NoOutputDir, <<"o", ".", "c", "s", "v">> }
DefaultOutputDir ==
    <<"d", "a", "t", "a", "/", "e", "m", "b", "e", "d", "d", "i", "n", "g", "s">>

(* what Whisper may report: a word text with its start time *)
Utterances == { <<"hello", 0>>, <<"world", 1>>, <<"hello", 1>> }
TokenStrings == { <<"a">>, S_newline }

RECURSIVE SeqsUpTo(_, _)
SeqsUpTo(S, n) ==
    IF n = 0 THEN { <<>> }
    ELSE LET shorter == SeqsUpTo(S, n - 1)
         IN  shorter \cup { Append(s, x) : s \in shorter, x \in S }

WordInfos == { [word |-> u[1], start |-> u[2], end |-> u[2] + 1] : u \in Utterances }
WordSeqs == SeqsUpTo(WordInfos, MaxWords)
TokenSeqs == SeqsUpTo(TokenStrings, MaxTokens)

(* --------------------------- pure helpers ------------------------------ *)
SetMax(S) == CHOOSE x \in S : \A y \in S : y <= x

(* str.replace(old, new): leftmost, non-overlapping, every occurrence *)
RECURSIVE Replace(_, _, _)
Replace(s, old, new) ==
    IF Len(s) < Len(old) THEN s
    ELSE IF SubSeq(s, 1, Len(old)) = old
         THEN new \o Replace(SubSeq(s, Len(old) + 1, Len(s)), old, new)
         ELSE <<s[1]>> \o Replace(Tail(s), old, new)

(* pathlib: Path(p).name, Path(p).stem, Path(d) / name, Path(p).parent *)
PathName(p) ==
    LET seps == { j \in 1..Len(p) : p[j] = "/" }
    IN  IF seps = {} THEN p ELSE SubSeq(p, SetMax(seps) + 1, Len(p))

PathStem(p) ==
    LET name == PathName(p)
        dots == { j \in 1..Len(name) : name[j] = "." }
    IN  IF dots = {} THEN name
        ELSE IF 1 < SetMax(dots) /\ SetMax(dots) < Len(name)
             THEN SubSeq(name, 1, SetMax(dots) - 1)
             ELSE name

PathJoin(d, name) == d \o S_sep \o name

PathParent(p) ==
    LET seps == { j \in 1..Len(p) : p[j] = "/" }
    IN  IF seps = {} THEN <<>> ELSE SubSeq(p, 1, SetMax(seps) - 1)

(* ------------------------------ state ---------------------------------- *)
VARIABLES
    pc,           \* position in main / process_audio_file
    args,         \* parsed command line: audio_file, output_dir
    path_exists,  \* os.path.exists(audio_file)
    frame,        \* locals of process_audio_file (NoFrame when not running)
    aframe,       \* locals of align_embeddings_to_words
    exc,          \* exception in flight / caught by main
    exit_code,    \* value returned by main (NoExitCode until it returns)
    stderr,       \* lines main printed to sys.stderr
    csv_file, npy_file, png_file,   \* output files on disk
    started,      \* pipeline stages entered, in order
    completed,    \* pipeline stages that returned normally, in order
    result        \* value returned by process_audio_file

vars == <<pc, args, path_exists, frame, aframe, exc, exit_code, stderr,
          csv_file, npy_file, png_file, started, completed, result>>

Stages == <<"load", "transcribe", "extract", "align", "save", "visualize">>

NoFrame == [fn |-> "none"]
NoFile == [exists |-> FALSE]
NoExc == [type |-> "None", text |-> "", path |-> <<>>]
NoResult == [returned |-> FALSE]
NoExitCode == -1

Exception(type, text, path) == [type |-> type, text |-> text, path |-> path]

Init ==
    /\ pc = "main"
    /\ args \in [audio_file : AudioPaths, output_dir : OutputDirArgs]
    /\ path_exists \in BOOLEAN
    /\ frame = NoFrame
    /\ aframe = NoFrame
    /\ exc = NoExc
    /\ exit_code = NoExitCode
    /\ stderr = <<>>
    /\ csv_file = NoFile
    /\ npy_file = NoFile
    /\ png_file = NoFile
    /\ started = <<>>
    /\ completed = <<>>
    /\ result = NoResult

(* an exception that leaves the results of the earlier stages reachable   *)
RaiseKeepingResults(e) ==
    /\ exc' = e
    /\ pc' = "except"
    /\ UNCHANGED <<frame, aframe>>

(* An exception leaving process_audio_file unwinds its frame: the locals   *)
(* (audio, transcription, embeddings, tokens, df) are dropped; nothing in  *)
(* the code removes a file that was already written.                       *)
Raise(e) ==
    /\ exc' = e
    /\ pc' = "except"
    /\ frame' = NoFrame
    /\ aframe' = NoFrame

(* AudioEmbeddingExtractor.__init__: both model loads wrap any Exception   *)
(* in RuntimeError; KeyboardInterrupt is not an Exception and passes.      *)
AudioEmbeddingExtractor_init ==
    /\ pc = "main"
    /\ \/ /\ pc' = "setup"
          /\ UNCHANGED <<frame, aframe, exc>>
       \/ \E e \in { Exception("RuntimeError", "Failed to load Whisper model", <<>>),
                     Exception("RuntimeError", "Failed to load GPT-2 model", <<>>),
                     Exception("KeyboardInterrupt", "", <<>>) } : Raise(e)
    /\ UNCHANGED <<args, path_exists, exit_code, stderr, csv_file, npy_file,
                   png_file, started, completed, result>>

(* process_audio_file, lines 419-429: resolve and create the output        *)
(* directory, derive the output file names.                                *)
ResolveOutputDir(output_dir) ==
    IF output_dir = NoOutputDir THEN DefaultOutputDir ELSE output_dir

CsvPath(output_dir, audio_path) ==
    PathJoin(output_dir, PathStem(audio_path) \o S_embeddings_csv)

PlotPath(output_dir, audio_path) ==
    PathJoin(output_dir, PathStem(audio_path) \o S_visualization_png)

process_audio_file_setup ==
    /\ pc = "setup"
    /\ \/ /\ frame' = [fn |-> "process_audio_file",
                       bound |-> {},
                       audio_path |-> args.audio_file,
                       output_dir |-> ResolveOutputDir(args.output_dir),
                       csv_path |-> CsvPath(ResolveOutputDir(args.output_dir), args.audio_file),
                       plot_path |-> PlotPath(ResolveOutputDir(args.output_dir), args.audio_file),
                       audio |-> "unbound",
                       transcription |-> [text |-> "", words |-> <<>>],
                       embeddings |-> [shape |-> <<0, 0>>, data |-> <<>>],
                       tokens |-> <<>>,
                       df |-> [columns |-> <<>>, rows |-> <<>>]]
          /\ pc' = "load"
          /\ UNCHANGED <<aframe, exc>>
       \/ \E e \in { Exception("OSError", "mkdir failed", <<>>),
                     Exception("KeyboardInterrupt", "", <<>>) } : Raise(e)
    /\ UNCHANGED <<args, path_exists, exit_code, stderr, csv_file, npy_file,
                   png_file, started, completed, result>>

(* load_audio without the os.path.exists test of lines 104-105: the       *)
(* decoder is the one to fail on a missing file                            *)
load_audio_unchecked ==
    /\ pc = "load"
    /\ started' = Append(started, "load")
    /\ IF ~path_exists
       THEN /\ Raise(Exception("RuntimeError", "Failed to load audio file", <<>>))
            /\ UNCHANGED completed
       ELSE \/ /\ frame' = [frame EXCEPT !.audio = "signal",
                                         !.bound = @ \cup {"audio"}]
               /\ completed' = Append(completed, "load")
               /\ pc' = "transcribe"
               /\ UNCHANGED <<aframe, exc>>
            \/ /\ \E e \in { Exception("RuntimeError", "Failed to load audio file", <<>>),
                             Exception("KeyboardInterrupt", "", <<>>) } : Raise(e)
               /\ UNCHANGED completed
    /\ UNCHANGED <<args, path_exists, exit_code, stderr, csv_file, npy_file,
                   png_file, result>>

(* Step 1, load_audio *)
load_audio ==
    /\ pc = "load"
    /\ started' = Append(started, "load")
    /\ IF ~path_exists
       THEN /\ Raise(Exception("FileNotFoundError", "Audio file not found: ",
                               frame.audio_path))
            /\ UNCHANGED completed
       ELSE \/ /\ frame' = [frame EXCEPT !.audio = "signal",
                                         !.bound = @ \cup {"audio"}]
               /\ completed' = Append(completed, "load")
               /\ pc' = "transcribe"
               /\ UNCHANGED <<aframe, exc>>
            \/ /\ \E e \in { Exception("RuntimeError", "Failed to load audio file", <<>>),
                             Exception("KeyboardInterrupt", "", <<>>) } : Raise(e)
               /\ UNCHANGED completed
    /\ UNCHANGED <<args, path_exists, exit_code, stderr, csv_file, npy_file,
                   png_file, result>>

(* Step 2, transcribe_with_timestamps: Whisper's words are an input here *)
transcribe_with_timestamps ==
    /\ pc = "transcribe"
    /\ started' = Append(started, "transcribe")
    /\ \/ /\ \E words \in WordSeqs :
                frame' = [frame EXCEPT
                            !.transcription = [text |-> "text", words |-> words],
                            !.bound = @ \cup {"transcription"}]
          /\ completed' = Append(completed, "transcribe")
          /\ pc' = "extract"
          /\ UNCHANGED <<aframe, exc>>
       \/ /\ \E e \in { Exception("RuntimeError", "Transcription failed", <<>>),
                        Exception("KeyboardInterrupt", "", <<>>) } : Raise(e)
          /\ UNCHANGED completed
    /\ UNCHANGED <<args, path_exists, exit_code, stderr, csv_file, npy_file,
                   png_file, result>>

(* Step 3, extract_gpt2_embeddings: the token strings are an input; the    *)
(* tensor has one hidden vector per (token position, layer), shape         *)
(* (len(tokens), num_layers).  A hidden vector is kept abstract.           *)
HiddenVector(toks, t, l) == [token |-> toks[t + 1], pos |-> t, layer |-> l]

Embeddings(toks) ==
    [shape |-> <<Len(toks), NumLayers>>,
     data |-> [t \in 1..Len(toks) |->
                 [l \in 1..NumLayers |-> HiddenVector(toks, t - 1, l - 1)]]]

extract_gpt2_embeddings ==
    /\ pc = "extract"
    /\ started' = Append(started, "extract")
    /\ \/ /\ \E toks \in TokenSeqs :
                frame' = [frame EXCEPT
                            !.tokens = toks,
                            !.embeddings = Embeddings(toks),
                            !.bound = @ \cup {"embeddings", "tokens"}]
          /\ completed' = Append(completed, "extract")
          /\ pc' = "align"
          /\ UNCHANGED <<aframe, exc>>
       \/ /\ \E e \in { Exception("RuntimeError", "inference failed", <<>>),
                        Exception("ValueError", "bad input", <<>>),
                        Exception("KeyboardInterrupt", "", <<>>) } : Raise(e)
          /\ UNCHANGED completed
    /\ UNCHANGED <<args, path_exists, exit_code, stderr, csv_file, npy_file,
                   png_file, result>>

(* ---------------- Step 4, align_embeddings_to_words -------------------- *)
InBoundsInclusive(current_pos, tokens) == current_pos <= Len(tokens)

InBounds(current_pos, tokens) == current_pos < Len(tokens)

align_embeddings_to_words_enter ==
    /\ pc = "align"
    /\ started' = Append(started, "align")
    /\ aframe' = [fn |-> "align_embeddings_to_words",
                  words_with_timestamps |-> frame.transcription.words,
                  tokens |-> frame.tokens,
                  embeddings |-> frame.embeddings,
                  i |-> 0,             \* words taken from the list so far
                  word_tokens |-> 0,   \* iterations left of `for _ in word_tokens`
                  encoded |-> <<>>,    \* len(word_tokens) of each word taken
                  current_pos |-> 0,
                  token_positions |-> <<>>]
    /\ pc' = "align_loop"
    /\ UNCHANGED <<args, path_exists, frame, exc, exit_code, stderr, csv_file,
                   npy_file, png_file, completed, result>>

(* lines 248-251: take the next word and re-tokenize it in isolation; the  *)
(* tokenizer is external, so the length of its answer is any count.        *)
align_embeddings_to_words_next_word ==
    /\ pc = "align_loop"
    /\ aframe.word_tokens = 0
    /\ aframe.i < Len(aframe.words_with_timestamps)
    /\ \/ /\ \E n \in 0..MaxWordTokens :
                aframe' = [aframe EXCEPT !.i = @ + 1,
                                         !.word_tokens = n,
                                         !.encoded = Append(@, n)]
          /\ UNCHANGED <<pc, frame, exc>>
       \/ Raise(Exception("KeyboardInterrupt", "", <<>>))
    /\ UNCHANGED <<args, path_exists, exit_code, stderr, csv_file, npy_file,
                   png_file, started, completed, result>>

(* the inner loop with `current_pos += 1` left out *)
align_embeddings_to_words_token_no_advance ==
    /\ pc = "align_loop"
    /\ aframe.word_tokens > 0
    /\ LET word_info == aframe.words_with_timestamps[aframe.i]
       IN  IF InBounds(aframe.current_pos, aframe.tokens)
           THEN aframe' = [aframe EXCEPT
                             !.token_positions =
                                 Append(@, [word |-> word_info.word,
                                            start |-> word_info.start,
                                            end |-> word_info.end,
                                            token_idx |-> aframe.current_pos]),
                             !.word_tokens = @ - 1]
           ELSE aframe' = [aframe EXCEPT !.word_tokens = @ - 1]
    /\ UNCHANGED <<pc, args, path_exists, frame, exc, exit_code, stderr, csv_file,
                   npy_file, png_file, started, completed, result>>

(* lines 254-264: one iteration of the inner loop *)
align_embeddings_to_words_token ==
    /\ pc = "align_loop"
    /\ aframe.word_tokens > 0
    /\ LET word_info == aframe.words_with_timestamps[aframe.i]
       IN  IF InBounds(aframe.current_pos, aframe.tokens)
           THEN aframe' = [aframe EXCEPT
                             !.token_positions =
                                 Append(@, [word |-> word_info.word,
                                            start |-> word_info.start,
                                            end |-> word_info.end,
                                            token_idx |-> aframe.current_pos]),
                             !.current_pos = @ + 1,
                             !.word_tokens = @ - 1]
           ELSE aframe' = [aframe EXCEPT !.word_tokens = @ - 1]
    /\ UNCHANGED <<pc, args, path_exists, frame, exc, exit_code, stderr, csv_file,
                   npy_file, png_file, started, completed, result>>

(* lines 267-293: one row (an insertion-ordered dict, here a sequence of   *)
(* <<key, value>> pairs) per recorded position.                            *)
Key(name) == <<name>>
LayerKey(layer_idx, metric) == <<"layer", layer_idx, metric>>
Statistic(fn, layer_emb) == [fn |-> fn, of |-> layer_emb]

RECURSIVE LayerItems(_, _, _)
LayerItems(embeddings, token_idx, layer_idx) ==
    IF layer_idx >= embeddings.shape[2] THEN <<>>
    ELSE LET layer_emb == embeddings.data[token_idx + 1][layer_idx + 1]
         IN  << <<LayerKey(layer_idx, "mean"), Statistic("mean", layer_emb)>>,
                <<LayerKey(layer_idx, "std"), Statistic("std", layer_emb)>>,
                <<LayerKey(layer_idx, "norm"), Statistic("norm", layer_emb)>> >>
             \o LayerItems(embeddings, token_idx, layer_idx + 1)

RowTokenRaw(tokens, token_idx) == tokens[token_idx + 1]

RowToken(tokens, token_idx) == Replace(tokens[token_idx + 1], S_newline, S_escaped_newline)

BuildRow(pos, tokens, embeddings) ==
    << <<Key("timestamp"), pos.start>>,
       <<Key("word"), pos.word>>,
       <<Key("token"), RowToken(tokens, pos.token_idx)>> >>
    \o LayerItems(embeddings, pos.token_idx, 0)

(* pd.DataFrame(rows): columns are the keys in first-seen order; a list of *)
(* no dicts gives a frame with no columns.                                 *)
DataFrame(rows) ==
    [columns |-> IF rows = <<>> THEN <<>>
                 ELSE [j \in 1..Len(rows[1]) |-> rows[1][j][1]],
     rows |-> [r \in 1..Len(rows) |-> [j \in 1..Len(rows[r]) |-> rows[r][j][2]]]]

(* returning the row tokens instead of the list that was passed in *)
AlignReturnRowTokens(df, embeddings, tokens) ==
    [df |-> df, embeddings |-> embeddings,
     tokens |-> [k \in DOMAIN tokens |-> Replace(tokens[k], S_newline, S_escaped_newline)]]

(* line 298 *)
AlignReturn(df, embeddings, tokens) == [df |-> df, embeddings |-> embeddings, tokens |-> tokens]

IndexOk(pos, tokens, embeddings) ==
    /\ pos.token_idx + 1 \in DOMAIN tokens
    /\ pos.token_idx + 1 \in DOMAIN embeddings.data

align_embeddings_to_words_build ==
    /\ pc = "align_loop"
    /\ aframe.word_tokens = 0
    /\ aframe.i = Len(aframe.words_with_timestamps)
    /\ IF \A k \in DOMAIN aframe.token_positions :
             IndexOk(aframe.token_positions[k], aframe.tokens, aframe.embeddings)
       THEN LET rows == [k \in DOMAIN aframe.token_positions |->
                           BuildRow(aframe.token_positions[k], aframe.tokens,
                                    aframe.embeddings)]
                ret == AlignReturn(DataFrame(rows), aframe.embeddings, aframe.tokens)
            IN  /\ frame' = [frame EXCEPT !.df = ret.df,
                                          !.embeddings = ret.embeddings,
                                          !.tokens = ret.tokens,
                                          !.bound = @ \cup {"df"}]
                /\ aframe' = NoFrame
                /\ completed' = Append(completed, "align")
                /\ pc' = "save_csv"
                /\ UNCHANGED exc
       ELSE /\ Raise(Exception("IndexError", "list index out of range", <<>>))
            /\ UNCHANGED completed
    /\ UNCHANGED <<args, path_exists, exit_code, stderr, csv_file, npy_file,
                   png_file, started, result>>

(* -------------------- Step 5, save_embeddings -------------------------- *)
SetMin(S) == CHOOSE x \in S : \A y \in S : x <= y

(* the physical lines one field's text occupies *)
RECURSIVE SplitLines(_)
SplitLines(s) ==
    LET nl == { j \in 1..Len(s) : s[j] = "\n" }
    IN  IF nl = {} THEN <<s>>
        ELSE <<SubSeq(s, 1, SetMin(nl) - 1)>> \o SplitLines(SubSeq(s, SetMin(nl) + 1, Len(s)))

(* the physical lines of one record: only the token column holds text that *)
(* may contain a line break                                                *)
RecordLines(columns, values) ==
    LET tc == { j \in 1..Len(columns) : columns[j] = Key("token") }
    IN  IF tc = {} THEN <<values>>
        ELSE LET j == SetMin(tc)
                 pieces == SplitLines(values[j])
                 n == Len(pieces)
             IN  IF n = 1 THEN <<values>>
                 ELSE << SubSeq(values, 1, j - 1) \o <<pieces[1]>> >>
                      \o [m \in 1..(n - 2) |-> <<pieces[m + 1]>>]
                      \o << <<pieces[n]>> \o SubSeq(values, j + 1, Len(values)) >>

RECURSIVE DataLines(_, _)
DataLines(df, r) ==
    IF r > Len(df.rows) THEN <<>>
    ELSE RecordLines(df.columns, df.rows[r]) \o DataLines(df, r + 1)

(* df.to_csv(path, index=False): the header line, then the records *)
ToCsv(df) == <<df.columns>> \o DataLines(df, 1)

(* line 322 *)
NpyPath(output_path) == Replace(output_path, S_csv, S_full_npy)

save_embeddings_csv ==
    /\ pc = "save_csv"
    /\ started' = Append(started, "save")
    /\ \/ /\ csv_file' = [exists |-> TRUE, path |-> frame.csv_path,
                          lines |-> ToCsv(frame.df), complete |-> TRUE]
          /\ pc' = "save_npy"
          /\ UNCHANGED <<frame, aframe, exc>>
       \/ /\ \E e \in { Exception("OSError", "write failed", <<>>),
                        Exception("KeyboardInterrupt", "", <<>>) } : Raise(e)
          /\ \/ UNCHANGED csv_file
             \/ \E n \in 0..(Len(ToCsv(frame.df)) - 1) :
                  csv_file' = [exists |-> TRUE, path |-> frame.csv_path,
                               lines |-> SubSeq(ToCsv(frame.df), 1, n),
                               complete |-> FALSE]
    /\ UNCHANGED <<args, path_exists, exit_code, stderr, npy_file, png_file,
                   completed, result>>

(* save_embeddings called without the tensor: the branch of line 321 is   *)
(* not taken                                                               *)
save_embeddings_npy_skipped ==
    /\ pc = "save_npy"
    /\ completed' = Append(completed, "save")
    /\ pc' = "visualize"
    /\ UNCHANGED <<args, path_exists, frame, aframe, exc, exit_code, stderr,
                   csv_file, npy_file, png_file, started, result>>

(* lines 320-324; process_audio_file always passes the tensor.  Only the   *)
(* directory process_audio_file created is known to exist.                 *)
save_embeddings_npy ==
    /\ pc = "save_npy"
    /\ LET npy_path == NpyPath(frame.csv_path)
       IN  \/ /\ PathParent(npy_path) = frame.output_dir
              /\ npy_file' = [exists |-> TRUE, path |-> npy_path,
                              data |-> frame.embeddings]
              /\ completed' = Append(completed, "save")
              /\ pc' = "visualize"
              /\ UNCHANGED <<frame, aframe, exc>>
           \/ /\ PathParent(npy_path) = frame.output_dir
              /\ \E e \in { Exception("OSError", "write failed", <<>>),
                            Exception("KeyboardInterrupt", "", <<>>) } : Raise(e)
              /\ UNCHANGED <<npy_file, completed>>
           \/ /\ PathParent(npy_path) # frame.output_dir
              /\ Raise(Exception("FileNotFoundError", "No such file or directory: ",
                                 npy_path))
              /\ UNCHANGED <<npy_file, completed>>
    /\ UNCHANGED <<args, path_exists, exit_code, stderr, csv_file, png_file,
                   started, result>>

(* ------------------ Step 6, visualize_embeddings ----------------------- *)
DefaultMetric == "norm"

LayerCols(num_layers, metric) == [i \in 1..num_layers |-> LayerKey(i - 1, metric)]

AllColsPresent(df, layer_cols) ==
    \A i \in 1..Len(layer_cols) : \E j \in 1..Len(df.columns) : df.columns[j] = layer_cols[i]

(* the column test of line 348 left out *)
VisualizePlotsUnchecked(df, embeddings, metric) == TRUE

(* lines 344-350: TRUE when the function goes on to plot *)
VisualizePlots(df, embeddings, metric) ==
    AllColsPresent(df, LayerCols(embeddings.shape[2], metric))

visualize_embeddings ==
    /\ pc = "visualize"
    /\ started' = Append(started, "visualize")
    /\ IF ~VisualizePlots(frame.df, frame.embeddings, DefaultMetric)
       THEN /\ completed' = Append(completed, "visualize")
            /\ pc' = "return"
            /\ UNCHANGED <<frame, aframe, exc, png_file>>
       ELSE \/ /\ png_file' = [exists |-> TRUE, path |-> frame.plot_path,
                               metric |-> DefaultMetric,
                               points |-> Len(frame.df.rows)]
               /\ completed' = Append(completed, "visualize")
               /\ pc' = "return"
               /\ UNCHANGED <<frame, aframe, exc>>
            \/ /\ \E e \in { Exception("OSError", "savefig failed", <<>>),
                             Exception("KeyboardInterrupt", "", <<>>) } : Raise(e)
               /\ UNCHANGED <<png_file, completed>>
    /\ UNCHANGED <<args, path_exists, exit_code, stderr, csv_file, npy_file,
                   result>>

(* lines 451-458 *)
process_audio_file_return ==
    /\ pc = "return"
    /\ result' = [returned |-> TRUE, df |-> frame.df, csv_path |-> frame.csv_path,
                  plot_path |-> frame.plot_path]
    /\ frame' = NoFrame
    /\ pc' = "main_return"
    /\ UNCHANGED <<args, path_exists, aframe, exc, exit_code, stderr, csv_file,
                   npy_file, png_file, started, completed>>

(* ------------------------------ main ----------------------------------- *)
main_return ==
    /\ pc = "main_return"
    /\ exit_code' = 0
    /\ pc' = "done"
    /\ UNCHANGED <<args, path_exists, frame, aframe, exc, stderr, csv_file,
                   npy_file, png_file, started, completed, result>>

(* the classes an exception of the given type is an instance of *)
Bases(type) ==
    CASE type = "FileNotFoundError" -> {"FileNotFoundError", "OSError", "Exception", "BaseException"}
      [] type = "OSError" -> {"OSError", "Exception", "BaseException"}
      [] type = "RuntimeError" -> {"RuntimeError", "Exception", "BaseException"}
      [] type = "ValueError" -> {"ValueError", "Exception", "BaseException"}
      [] type = "IndexError" -> {"IndexError", "LookupError", "Exception", "BaseException"}
      [] type = "KeyboardInterrupt" -> {"KeyboardInterrupt", "BaseException"}

(* the except clauses of main, in source order; the first match handles *)
ExceptClauses == <<"FileNotFoundError", "RuntimeError", "KeyboardInterrupt", "Exception">>

ClauseFor(e) ==
    SetMin({ c \in 1..Len(ExceptClauses) : ExceptClauses[c] \in Bases(e.type) })

ClauseExitCodeAlwaysOne(c) == <<1, 1, 1, 1>>[c]

ClauseExitCode(c) == <<1, 1, 130, 1>>[c]

ErrorLine(prefix, e) == [prefix |-> prefix, text |-> e.text, path |-> e.path]
TracebackLine == [prefix |-> "Traceback", text |-> "", path |-> <<>>]

main_except_FileNotFoundError ==
    /\ pc = "except"
    /\ ClauseFor(exc) = 1
    /\ stderr' = Append(stderr, ErrorLine("Error: ", exc))
    /\ exit_code' = ClauseExitCode(1)
    /\ pc' = "done"
    /\ UNCHANGED <<args, path_exists, frame, aframe, exc, csv_file, npy_file,
                   png_file, started, completed, result>>

main_except_RuntimeError ==
    /\ pc = "except"
    /\ ClauseFor(exc) = 2
    /\ stderr' = Append(stderr, ErrorLine("Error: ", exc))
    /\ exit_code' = ClauseExitCode(2)
    /\ pc' = "done"
    /\ UNCHANGED <<args, path_exists, frame, aframe, exc, csv_file, npy_file,
                   png_file, started, completed, result>>

main_except_KeyboardInterrupt ==
    /\ pc = "except"
    /\ ClauseFor(exc) = 3
    /\ exit_code' = ClauseExitCode(3)
    /\ pc' = "done"
    /\ UNCHANGED <<args, path_exists, frame, aframe, exc, stderr, csv_file,
                   npy_file, png_file, started, completed, result>>

main_except_Exception ==
    /\ pc = "except"
    /\ ClauseFor(exc) = 4
    /\ stderr' = stderr \o <<ErrorLine("Unexpected error: ", exc), TracebackLine>>
    /\ exit_code' = ClauseExitCode(4)
    /\ pc' = "done"
    /\ UNCHANGED <<args, path_exists, frame, aframe, exc, csv_file, npy_file,
                   png_file, started, completed, result>>

Next ==
    \/ AudioEmbeddingExtractor_init
    \/ process_audio_file_setup
    \/ load_audio
    \/ transcribe_with_timestamps
    \/ extract_gpt2_embeddings
    \/ align_embeddings_to_words_enter
    \/ align_embeddings_to_words_next_word
    \/ align_embeddings_to_words_token
    \/ align_embeddings_to_words_build
    \/ save_embeddings_csv
    \/ save_embeddings_npy
    \/ visualize_embeddings
    \/ process_audio_file_return
    \/ main_return
    \/ main_except_FileNotFoundError
    \/ main_except_RuntimeError
    \/ main_except_KeyboardInterrupt
    \/ main_except_Exception

Spec == Init /\ [][Next]_vars

(* ============================ properties =============================== *)
InAligner == pc = "align_loop"
FrameLive == frame.fn = "process_audio_file"
Min(a, b) == IF a <= b THEN a ELSE b

(* C1: whatever the per-word re-tokenization counts are, the aligner       *)
(* records at most len(tokens) positions and emits at most len(tokens)     *)
(* rows, every recorded token index lies in 0..len(tokens)-1, and no       *)
(* lookup in tokens or in the tensor is out of range (no IndexError).      *)
C1_AlignerInBounds ==
    /\ InAligner =>
          /\ Len(aframe.token_positions) <= Len(aframe.tokens)
          /\ \A k \in DOMAIN aframe.token_positions :
                /\ aframe.token_positions[k].token_idx \in 0..(Len(aframe.tokens) - 1)
                /\ aframe.token_positions[k].token_idx + 1 \in DOMAIN aframe.embeddings.data
    /\ (FrameLive /\ "df" \in frame.bound) => Len(frame.df.rows) <= Len(frame.tokens)
    /\ exc.type # "IndexError"

(* the cursor sits at the end of a non-empty token list while iterations   *)
(* of the current word are still pending: the next ones emit nothing       *)
C1_Witness ==
    /\ InAligner
    /\ aframe.word_tokens > 0
    /\ Len(aframe.tokens) > 0
    /\ aframe.current_pos = Len(aframe.tokens)
    /\ Len(aframe.token_positions) = Len(aframe.tokens)

(* C2: main returns 0 exactly when nothing raised (all six stages          *)
(* completed); 1 for FileNotFoundError, RuntimeError and any other         *)
(* Exception, the last with a stack trace; 130 for KeyboardInterrupt; no   *)
(* other code.                                                             *)
TracebackPrinted == \E n \in DOMAIN stderr : stderr[n] = TracebackLine

C2_ExitCodes ==
    /\ pc # "done" => exit_code = NoExitCode
    /\ pc = "done" =>
          /\ exit_code \in {0, 1, 130}
          /\ exit_code = 0 <=> exc = NoExc
          /\ exit_code = 0 => completed = Stages
          /\ exc.type \in {"FileNotFoundError", "RuntimeError"} =>
                exit_code = 1 /\ ~TracebackPrinted
          /\ exc.type \in {"OSError", "ValueError", "IndexError"} =>
                exit_code = 1 /\ TracebackPrinted
          /\ exc.type = "KeyboardInterrupt" => exit_code = 130 /\ stderr = <<>>

C2_Witness ==
    /\ pc = "done"
    /\ exc.type = "KeyboardInterrupt"
    /\ exit_code = 130

(* C3 as stated: whenever the input path does not exist the run ends with  *)
(* exit code 1 and an error line carrying the path, no output file is ever *)
(* created and no stage after load runs.                                   *)
NoOutputFiles == ~csv_file.exists /\ ~npy_file.exists /\ ~png_file.exists
PathInErrorLine ==
    \E n \in DOMAIN stderr : stderr[n].prefix = "Error: " /\ stderr[n].path = args.audio_file

IsPrefix(s, t) == Len(s) <= Len(t) /\ s = SubSeq(t, 1, Len(s))

StrictlyLinear ==
    /\ IsPrefix(started, Stages)
    /\ IsPrefix(completed, started)
    /\ Len(started) <= Len(completed) + 1
    /\ exc # NoExc => pc \in {"except", "done"}

Failed == pc = "done" /\ exit_code # 0

C4_Original ==
    /\ StrictlyLinear
    /\ Failed => /\ frame = NoFrame
                 /\ aframe = NoFrame
                 /\ result = NoResult
                 /\ NoOutputFiles

(* C4 amended: the stages run in the fixed order, each at most once and    *)
(* only after the earlier ones completed, with no retry; a failure at      *)
(* stage N discards every in-memory result of stages 1..N-1, but files the *)
(* save stage already wrote are not removed: the table file (possibly      *)
(* truncated) survives a failure of the save stage itself or of visualize, *)
(* the tensor file survives a failure of visualize.                        *)
C4_FailFast ==
    /\ StrictlyLinear
    /\ Failed => /\ frame = NoFrame
                 /\ aframe = NoFrame
                 /\ result = NoResult
                 /\ Len(completed) < Len(Stages)
                 /\ ~png_file.exists
                 /\ csv_file.exists => Len(started) >= 5
                 /\ npy_file.exists => (Len(completed) = 5 /\ csv_file.exists /\ csv_file.complete)
                 /\ Len(started) = 6 => (csv_file.exists /\ npy_file.exists)

(* visualize failed: the run is a failure and both files of save remain *)
C4_Witness ==
    /\ Failed
    /\ started = Stages
    /\ csv_file.exists
    /\ npy_file.exists
    /\ frame = NoFrame

(* C5: when the table lacks a column layer_i_norm for some layer i of the  *)
(* tensor (the table with no rows has no columns at all), the visualizer   *)
(* returns normally: no file is written or changed and nothing is raised.  *)
HasColumn(df, key) == \E j \in DOMAIN df.columns : df.columns[j] = key
MissingMetricColumn(df, embeddings, metric) ==
    \E l \in 0..(embeddings.shape[2] - 1) : ~HasColumn(df, LayerKey(l, metric))

C5_VisualizerSkips ==
    [][(pc = "visualize" /\ MissingMetricColumn(frame.df, frame.embeddings, DefaultMetric)) =>
          /\ pc' = "return"
          /\ png_file' = png_file /\ ~png_file'.exists
          /\ csv_file' = csv_file
          /\ npy_file' = npy_file
          /\ exc' = NoExc
          /\ frame' = frame]_vars

C5_Witness ==
    /\ pc = "return"
    /\ frame.df.rows = <<>>
    /\ MissingMetricColumn(frame.df, frame.embeddings, DefaultMetric)
    /\ completed = Stages
    /\ ~png_file.exists

(* C6 as stated: for any number of rows, zero included, the table file is  *)
(* the header timestamp, word, token, layer_i_mean, layer_i_std,           *)
(* layer_i_norm (i increasing) followed by one line per row, in order.     *)
Metrics == <<"mean", "std", "norm">>
ExpectedHeader ==
    <<Key("timestamp"), Key("word"), Key("token")>>
    \o [j \in 1..(3 * NumLayers) |-> LayerKey((j - 1) \div 3, Metrics[((j - 1) % 3) + 1])]

TableWritten == FrameLive /\ csv_file.exists /\ csv_file.complete

OneLinePerRow ==
    /\ Len(csv_file.lines) = 1 + Len(frame.df.rows)
    /\ \A r \in DOMAIN frame.df.rows : csv_file.lines[r + 1] = frame.df.rows[r]

C6_Original ==
    TableWritten => (csv_file.lines[1] = ExpectedHeader /\ OneLinePerRow)

(* C6 amended: the table file is one header line followed by one line per  *)
(* row, in emission order; for a table with at least one row the header is *)
(* timestamp, word, token, layer_i_mean, layer_i_std, layer_i_norm (i      *)
(* increasing); for the table with no rows the header line is empty, it    *)
(* names no column.                                                        *)
C6_TableFile ==
    TableWritten =>
       /\ Len(csv_file.lines) >= 1
       /\ csv_file.lines[1] = (IF frame.df.rows = <<>> THEN <<>> ELSE ExpectedHeader)
       /\ OneLinePerRow
       /\ \A r \in DOMAIN frame.df.rows : Len(frame.df.rows[r]) = Len(ExpectedHeader)

(* a token with a line break went into a table of two rows *)
C6_Witness ==
    /\ TableWritten
    /\ Len(frame.df.rows) = 2
    /\ \E k \in 1..2 : frame.tokens[k] = S_newline

(* C7: the tensor file's path is the table file's path with only the       *)
(* extension replaced: <output_dir>/<audio_stem>_embeddings_full.npy, also *)
(* when the directory or the stem contains ".csv".                         *)
ExtensionReplaced(output_path) ==
    SubSeq(output_path, 1, Len(output_path) - Len(S_csv)) \o S_full_npy

C7_CompanionName ==
    /\ pc = "save_npy" => NpyPath(frame.csv_path) = ExtensionReplaced(frame.csv_path)
    /\ npy_file.exists =>
          npy_file.path = PathJoin(ResolveOutputDir(args.output_dir),
                                   PathStem(args.audio_file)
                                   \o SubSeq(S_embeddings_csv, 1, Len(S_embeddings_csv) - Len(S_csv))
                                   \o S_full_npy)

(* C8: the aligner leaves its inputs alone: while it runs, its words,      *)
(* tokens and tensor are the caller's; the token list and tensor it        *)
(* returns are, element for element, the ones it was given, and the        *)
(* caller's word sequence is unchanged.                                    *)
C8_InputsUnchanged ==
    [][/\ pc' = "align_loop" =>
             /\ aframe'.tokens = frame'.tokens
             /\ aframe'.embeddings = frame'.embeddings
             /\ aframe'.words_with_timestamps = frame'.transcription.words
       /\ pc = "align" => frame' = frame
       /\ (pc = "align_loop" /\ pc' = "save_csv") =>
             /\ frame'.tokens = frame.tokens
             /\ frame'.embeddings = frame.embeddings
             /\ frame'.transcription = frame.transcription
             /\ frame'.embeddings = Embeddings(frame.tokens)]_vars

(* the aligner returned a row whose token text differs from the token *)
C8_Witness ==
    /\ pc = "save_csv"
    /\ Len(frame.df.rows) > 0
    /\ frame.tokens[1] = S_newline
    /\ frame.df.rows[1][3] = S_escaped_newline

(* C9 as stated: the cursor starts at 0 and grows by exactly one per       *)
(* emitted row; the k-th row (k from 0) has token index k and the token    *)
(* string tokens[k]; R = min(len(tokens), sum of the counts) rows; each    *)
(* row has the word and timestamp of the word being iterated; rows are in  *)
(* word order, timestamps non-decreasing when the word starts are; nothing *)
(* is emitted once the cursor reached len(tokens).                         *)
RECURSIVE Expand(_, _)
Expand(counts, w) ==
    IF w > Len(counts) THEN <<>>
    ELSE [k \in 1..counts[w] |-> w] \o Expand(counts, w + 1)

(* the word index of every inner-loop iteration performed so far *)
IterationsDone ==
    Expand([w \in DOMAIN aframe.encoded |->
              IF w = Len(aframe.encoded) THEN aframe.encoded[w] - aframe.word_tokens
              ELSE aframe.encoded[w]], 1)

CursorInvariant ==
    LET done == IterationsDone
        R == Min(Len(aframe.tokens), Len(done))
    IN  /\ aframe.current_pos = R
        /\ Len(aframe.token_positions) = R
        /\ Len(aframe.encoded) = aframe.i
        /\ \A k \in 1..R :
              LET word_info == aframe.words_with_timestamps[done[k]]
              IN  aframe.token_positions[k] =
                     [word |-> word_info.word, start |-> word_info.start,
                      end |-> word_info.end, token_idx |-> k - 1]

CursorStep ==
    (pc = "align_loop" /\ pc' = "align_loop") =>
       /\ aframe'.current_pos \in {aframe.current_pos, aframe.current_pos + 1}
       /\ Len(aframe'.token_positions) - Len(aframe.token_positions)
             = aframe'.current_pos - aframe.current_pos
       /\ SubSeq(aframe'.token_positions, 1, Len(aframe.token_positions))
             = aframe.token_positions
       /\ aframe.current_pos >= Len(aframe.tokens) =>
             aframe'.token_positions = aframe.token_positions

NonDecreasing(s) == \A a, b \in DOMAIN s : a <= b => s[a] <= s[b]

RowsFollowPositions(TokenText(_)) ==
    (pc = "align_loop" /\ pc' = "save_csv") =>
       /\ Len(frame'.df.rows) = Len(aframe.token_positions)
       /\ \A k \in DOMAIN aframe.token_positions :
             /\ frame'.df.rows[k][1] = aframe.token_positions[k].start
             /\ frame'.df.rows[k][2] = aframe.token_positions[k].word
             /\ frame'.df.rows[k][3] = TokenText(aframe.tokens[k])
       /\ NonDecreasing([w \in DOMAIN aframe.words_with_timestamps |->
                            aframe.words_with_timestamps[w].start])
             => NonDecreasing([k \in DOMAIN frame'.df.rows |-> frame'.df.rows[k][1]])

AsIs(token) == token

C9_Original ==
    [][/\ pc' = "align_loop" => CursorInvariant'
       /\ CursorStep
       /\ RowsFollowPositions(AsIs)]_vars

(* C9 amended: as stated, except that the k-th row carries the token       *)
(* string tokens[k] with every line break in it written as the two         *)
(* characters backslash, n.                                                *)
RECURSIVE EscapeLineBreaks(_)
EscapeLineBreaks(token) ==
    IF token = <<>> THEN <<>>
    ELSE (IF Head(token) = "\n" THEN <<"\\", "n">> ELSE <<Head(token)>>)
         \o EscapeLineBreaks(Tail(token))

C9_Cursor ==
    [][/\ pc' = "align_loop" => CursorInvariant'
       /\ CursorStep
       /\ RowsFollowPositions(EscapeLineBreaks)]_vars

(* the counts ran past the token list: two words, the second found the     *)
(* cursor at the end and emitted fewer rows than its count                 *)
C9_Witness ==
    /\ pc = "align_loop"
    /\ aframe.i = 2
    /\ aframe.word_tokens = 0
    /\ aframe.encoded = <<1, 2>>
    /\ Len(aframe.tokens) = 2
    /\ aframe.current_pos = 2
    /\ aframe.token_positions[2].word = aframe.words_with_timestamps[2].word

(* C10: a run that ends with exit code 0 has written the complete table    *)
(* file and the tensor file, the table file before the visualizer started; *)
(* the plot exists exactly when the table has every layer_i_norm column,   *)
(* so with no rows there is a CSV and an npy but no PNG, and               *)
(* process_audio_file returned the plot path all the same.                 *)
C10_SuccessfulRun ==
    /\ "visualize" \in { started[n] : n \in DOMAIN started } =>
          (csv_file.exists /\ csv_file.complete /\ npy_file.exists)
    /\ (pc = "done" /\ exit_code = 0) =>
          /\ csv_file.exists /\ csv_file.complete
          /\ csv_file.path = result.csv_path
          /\ npy_file.exists
          /\ result.returned
          /\ result.plot_path = PlotPath(ResolveOutputDir(args.output_dir), args.audio_file)
          /\ png_file.exists <=>
                (\A l \in 0..(NumLayers - 1) : HasColumn(result.df, LayerKey(l, "norm")))
          /\ png_file.exists => png_file.path = result.plot_path
          /\ result.df.rows = <<>> => ~png_file.exists
          /\ result.df.rows # <<>> => png_file.exists

C10_Witness ==
    /\ pc = "done"
    /\ exit_code = 0
    /\ result.df.rows = <<>>
    /\ csv_file.exists
    /\ npy_file.exists
    /\ ~png_file.exists
    /\ result.plot_path # <<>>

====
